---- MODULE Spec2Model ----
(***************************************************************************)
(* Model of api/core/workflow/nodes/document_extractor/                    *)
(* document_extractor_node.py: DocumentExtractorNode._run, the MIME        *)
(* dispatcher (_extract_text_from_file, _extract_text), file acquisition   *)
(* (_download_file_content) and the CSV-to-markdown rendering              *)
(* (_extract_text_from_csv).                                               *)
(*                                                                         *)
(* Python strings are TLA+ strings; None is the string NULL.  The network  *)
(* fetch, the storage read and the format decoders are collaborators: the  *)
(* model chooses their outcome (a value or a raised exception)             *)
(* nondeterministically.  `log` is a history variable recording every      *)
(* dispatcher call, collaborator call, strategy invocation, return and     *)
(* raise, in the order the code performs them.                             *)
(***************************************************************************)
EXTENDS Integers, Sequences, FiniteSets, TLC

VARIABLES
    variable,             \* what variable_pool.get(variable_selector) returned
    pc,                   \* position inside _run
    i,                    \* 1-based index of the element map() is processing
    file_content,         \* bytes returned by _download_file_content
    extracted_text_list,  \* results collected so far by list(map(...))
    extracted_text,       \* the result of the single-file branch
    result,               \* the NodeRunResult returned by _run
    escaped,              \* the exception that left _run uncaught
    log,                  \* history of calls, returns and raises
    rows,                 \* _extract_text_from_csv: list(csv_reader)
    row_idx,              \* _extract_text_from_csv: loop position in rows[1:]
    markdown_table,       \* _extract_text_from_csv: the accumulated table
    csv_pc,               \* position inside _extract_text_from_csv
    csv_result            \* what _extract_text_from_csv returned or raised

vars == <<variable, pc, i, file_content, extracted_text_list, extracted_text,
          result, escaped, log, rows, row_idx, markdown_table, csv_pc,
          csv_result>>

runVars == <<variable, pc, i, file_content, extracted_text_list,
             extracted_text, result, escaped, log>>

csvVars == <<rows, row_idx, markdown_table, csv_pc, csv_result>>

NULL == "<None>"

(* Bounds of the model. *)
MaxFiles == 3
MaxRows == 3
MaxCols == 2

(***************************************************************************)
(* Strings                                                                 *)
(***************************************************************************)
StartsWith(s, prefix) ==
    /\ Len(s) >= Len(prefix)
    /\ SubSeq(s, 1, Len(prefix)) = prefix

(***************************************************************************)
(* Files and input variables                                               *)
(***************************************************************************)
REMOTE_URL == "remote_url"
LOCAL_FILE == "local_file"
TOOL_FILE == "tool_file"

TransferMethods == {REMOTE_URL, LOCAL_FILE, TOOL_FILE}

PLAIN_ALIASES == {"text/html", "text/htm", "text/markdown", "text/xml"}
DOC_TYPES ==
    {"application/vnd.openxmlformats-officedocument.wordprocessingml.document",
     "application/msword"}
EXCEL_TYPES ==
    {"application/vnd.openxmlformats-officedocument.spreadsheetml.sheet",
     "application/vnd.ms-excel"}
PPTX_TYPE ==
    "application/vnd.openxmlformats-officedocument.presentationml.presentation"

(* MIME strings the model feeds in: every string the dispatcher names, and *)
(* strings it does not name (a parameterised and an extended text/plain,   *)
(* a proper prefix, a different case, an extended pdf, an unknown type).   *)
MimeTypes ==
    {"text/plain", "application/pdf", "text/csv", "application/vnd.ms-powerpoint",
     PPTX_TYPE, "application/epub+zip", "message/rfc822",
     "application/vnd.ms-outlook"}
    \cup PLAIN_ALIASES \cup DOC_TYPES \cup EXCEL_TYPES
    \cup {"text/plain; charset=utf-8", "text/plainx", "text/pla", "TEXT/PLAIN",
          "application/pdf; v=1", "text/csvx", "application/zip", ""}

File(tm, url, rid, mime) ==
    [transfer_method |-> tm, remote_url |-> url, related_id |-> rid,
     mime_type |-> mime]

FileSet ==
    {File(tm, url, rid, mime) :
        tm \in TransferMethods, url \in {NULL, "http://h/f"},
        rid \in {NULL, "id1"}, mime \in MimeTypes \cup {NULL}}

(* Files used as elements of a list input. *)
BatchFileSet ==
    {File(REMOTE_URL, "http://h/f", NULL, "text/plain; charset=utf-8"),
     File(LOCAL_FILE, NULL, "id1", "text/csv"),
     File(LOCAL_FILE, NULL, "id1", NULL),
     File(REMOTE_URL, "http://h/f", NULL, "application/zip"),
     File(REMOTE_URL, NULL, NULL, "application/pdf"),
     File(TOOL_FILE, NULL, "id1", "application/msword")}

SeqsUpTo(S, n) == UNION {[1..k -> S] : k \in 0..n}

(* A variable is its segment class, the kind of Python value it holds,     *)
(* the truthiness of that value and, for file values, the files.  A        *)
(* non-file array holding elements has truthy = TRUE and no files: its     *)
(* elements are never read, line 44 rejects it first.                      *)
Segment(cls, kind, truthy, files) ==
    [segment |-> cls, kind |-> kind, truthy |-> truthy, files |-> files]

MISSING == Segment("missing", "none", FALSE, <<>>)

Variables ==
    {MISSING}
    \cup {Segment("FileSegment", "file", TRUE, <<f>>) : f \in FileSet}
    \cup {Segment("ArrayFileSegment", "list", fs # <<>>, fs) :
            fs \in SeqsUpTo(BatchFileSet, MaxFiles)}
    \cup {Segment("StringSegment", "other", t, <<>>) : t \in BOOLEAN}
    \cup {Segment("NoneSegment", "other", FALSE, <<>>)}
    \cup {Segment("ArrayStringSegment", "list", t, <<>>) : t \in BOOLEAN}
    \cup {Segment("ArrayAnySegment", "list", FALSE, <<>>)}

variable_selector == "['start', 'files']"

(***************************************************************************)
(* Exceptions                                                              *)
(***************************************************************************)
Exc(kind, msg) == [kind |-> kind, msg |-> msg]

NoExc == Exc("", "")

(* .exc: the three error kinds derive from DocumentExtractorError. *)
DocumentExtractorErrors ==
    {"DocumentExtractorError", "FileDownloadError", "TextExtractionError",
     "UnsupportedFileTypeError"}

(* `except DocumentExtractorError` of _run. *)
RunCatches(kind) == kind \in DocumentExtractorErrors

(***************************************************************************)
(* History                                                                 *)
(***************************************************************************)
Event(op, idx, at, arg, msg) ==
    [op |-> op, idx |-> idx, at |-> at, arg |-> arg, msg |-> msg]

Raised(idx, at, e) == Event("raise", idx, at, e.kind, e.msg)

(***************************************************************************)
(* NodeRunResult                                                           *)
(***************************************************************************)
SUCCEEDED == "succeeded"
FAILED == "failed"

Absent == [present |-> FALSE, value |-> <<>>]

Present(v) == [present |-> TRUE, value |-> v]

NodeRunResult(status, error, inputs, process_data, outputs) ==
    [status |-> status, error |-> error, inputs |-> inputs,
     process_data |-> process_data, outputs |-> outputs]

NoResult == NodeRunResult("", "", Absent, Absent, Absent)

(* inputs and process_data of lines 49-50. *)
RunInputs == Present(variable_selector)

ProcessData(v) == Present(v.files)

(* Mutant: the FAILED result carries the texts extracted so far. *)
FailedResult_partial(v, e) ==
    [status |-> FAILED, error |-> e.msg,
     inputs |-> [present |-> TRUE, value |-> variable_selector],
     process_data |-> [present |-> TRUE, value |-> v.files],
     outputs |-> [present |-> TRUE, value |-> extracted_text_list]]

(* Lines 72-77: the FAILED result built by the except clause. *)
FailedResult(v, e) ==
    NodeRunResult(FAILED, e.msg, RunInputs, ProcessData(v), Absent)

(* Lines 55-60 and 63-68. *)
SucceededResult(v, text) ==
    NodeRunResult(SUCCEEDED, "", RunInputs, ProcessData(v), Present(text))

(***************************************************************************)
(* _extract_text: MIME type -> strategy (lines 82-109)                     *)
(***************************************************************************)
UNSUPPORTED == "unsupported"

(* Mutant: every text/ type is taken for plain text. *)
IsPlainText_anytext(mime_type) ==
    StartsWith(mime_type, "text/") \/ mime_type \in PLAIN_ALIASES

(* Line 82. *)
IsPlainText(mime_type) ==
    StartsWith(mime_type, "text/plain") \/ mime_type \in PLAIN_ALIASES

SelectStrategy(mime_type) ==
    IF IsPlainText(mime_type) THEN "plain_text"
    ELSE IF mime_type = "application/pdf" THEN "pdf"
    ELSE IF mime_type \in DOC_TYPES THEN "doc"
    ELSE IF mime_type = "text/csv" THEN "csv"
    ELSE IF mime_type \in EXCEL_TYPES THEN "excel"
    ELSE IF mime_type = "application/vnd.ms-powerpoint" THEN "ppt"
    ELSE IF mime_type = PPTX_TYPE THEN "pptx"
    ELSE IF mime_type = "application/epub+zip" THEN "epub"
    ELSE IF mime_type = "message/rfc822" THEN "eml"
    ELSE IF mime_type = "application/vnd.ms-outlook" THEN "msg"
    ELSE UNSUPPORTED

(***************************************************************************)
(* Format strategies (lines 112-140, 170-248).  The decoder each strategy  *)
(* delegates to either yields text determined by the bytes or raises.      *)
(***************************************************************************)
Contents == {"b1", "b2"}

Decoded(strategy, content) == strategy \o "(" \o content \o ")"

(* What the body of a strategy's try block can raise. *)
DecoderRaises(strategy) ==
    IF strategy = "plain_text"
    THEN {Exc("UnicodeDecodeError", "invalid start byte")}
    ELSE {Exc("UnicodeDecodeError", "invalid start byte"),
          Exc("DecoderError", "corrupt file")}

(* Mutant: every strategy catches UnicodeDecodeError only. *)
StrategyCatches_decodeonly(strategy, kind) == kind = "UnicodeDecodeError"

(* The except clause of each strategy: _extract_text_from_plain_text       *)
(* catches UnicodeDecodeError (line 115), the others catch Exception.      *)
StrategyCatches(strategy, kind) ==
    IF strategy = "plain_text" THEN kind = "UnicodeDecodeError" ELSE TRUE

StrategyLabel(strategy) ==
    CASE strategy = "pdf" -> "PDF"
      [] strategy = "doc" -> "DOC/DOCX"
      [] strategy = "csv" -> "CSV"
      [] strategy = "excel" -> "Excel file"
      [] strategy = "ppt" -> "PPT"
      [] strategy = "pptx" -> "PPTX"
      [] strategy = "epub" -> "EPUB"
      [] strategy = "eml" -> "EML"
      [] strategy = "msg" -> "MSG"
      [] OTHER -> ""

TextExtractionError(strategy, e) ==
    IF strategy = "plain_text"
    THEN Exc("TextExtractionError", "Failed to decode plain text file")
    ELSE Exc("TextExtractionError",
             "Failed to extract text from " \o StrategyLabel(strategy)
                \o ": " \o e.msg)

(* What a strategy call does: its text, or the exception it lets out. *)
StrategyOutcomes(strategy, content) ==
    {[text |-> Decoded(strategy, content), exc |-> NoExc]}
    \cup {[text |-> "",
           exc |-> IF StrategyCatches(strategy, e.kind)
                   THEN TextExtractionError(strategy, e) ELSE e] :
            e \in DecoderRaises(strategy)}

(***************************************************************************)
(* _download_file_content (lines 143-159)                                  *)
(***************************************************************************)
(* Mutant: the remote_url check is dropped. *)
RemoteUrlMissing_never(file) == FALSE

RemoteUrlMissing(file) == file.remote_url = NULL

RelatedIdMissing(file) == file.related_id = NULL

Attempt(calls, content, exc) ==
    [calls |-> calls, content |-> content, exc |-> exc]

(* ssrf_proxy.get followed by response.raise_for_status(). *)
GetOutcomes(url) ==
    {Attempt(<<"get">>, c, NoExc) : c \in Contents}
    \cup {Attempt(<<"get">>, "", Exc("HTTPStatusError", "404 Not Found")),
          Attempt(<<"get">>, "", Exc("ConnectError", "connection refused"))}

(* file_manager.download. *)
ReadOutcomes(rid) ==
    {Attempt(<<"read">>, c, NoExc) : c \in Contents}
    \cup {Attempt(<<"read">>, "", Exc("StorageError", "file not found"))}

(* The body of the try block, lines 146-157. *)
TryDownload(file) ==
    IF file.transfer_method = REMOTE_URL
    THEN IF RemoteUrlMissing(file)
         THEN {Attempt(<<>>, "",
                       Exc("FileDownloadError", "Missing URL for remote file"))}
         ELSE GetOutcomes(file.remote_url)
    ELSE IF file.transfer_method = LOCAL_FILE
    THEN IF RelatedIdMissing(file)
         THEN {Attempt(<<>>, "",
                       Exc("FileDownloadError", "Missing file ID for local file"))}
         ELSE ReadOutcomes(file.related_id)
    ELSE {Attempt(<<>>, "",
                  Exc("ValueError",
                      "Unsupported transfer method: " \o file.transfer_method))}

(* Mutant: only FileDownloadError is caught and re-wrapped. *)
DownloadCatches_narrow(kind) == kind = "FileDownloadError"

(* `except Exception` of line 158. *)
DownloadCatches(kind) == TRUE

(* Line 159. *)
FileDownloadError(e) ==
    Exc("FileDownloadError", "Error downloading file: " \o e.msg)

DownloadOutcomes(file) ==
    {IF a.exc # NoExc /\ DownloadCatches(a.exc.kind)
     THEN Attempt(a.calls, "", FileDownloadError(a.exc))
     ELSE a : a \in TryDownload(file)}

(***************************************************************************)
(* DocumentExtractorNode._run (lines 36-77)                                *)
(***************************************************************************)
(* Mutant: the segment class is never checked. *)
TypeCheckFails_never(v) == FALSE

(* Line 44: variable.value and not isinstance(variable, ArrayFileSegment | *)
(* FileSegment).                                                           *)
TypeCheckFails(v) ==
    v.truthy /\ v.segment \notin {"ArrayFileSegment", "FileSegment"}

(* isinstance(value, list), line 53. *)
IsList(v) == v.kind = "list"

(* isinstance(value, File), line 61. *)
IsFile(v) == v.kind = "file"

CurrentFile == variable.files[i]

(* Mutant: map() skips every other element. *)
NextIndex_skip(k) == k + 2

(* map() hands the next element to _extract_text_from_file. *)
NextIndex(k) == k + 1

(* Mutant: the mime_type check is dropped. *)
MimeTypeMissing_never(file) == FALSE

(* Line 163. *)
MimeTypeMissing(file) == file.mime_type = NULL

(* An exception reaches the try block of _run: lines 71-77 turn it into a  *)
(* FAILED result, or it leaves _run.                                       *)
Propagate(e) ==
    /\ pc' = "done"
    /\ IF RunCatches(e.kind)
       THEN result' = FailedResult(variable, e) /\ escaped' = escaped
       ELSE result' = result /\ escaped' = e

(* Lines 36-53, 61, 69-70. *)
RunStart ==
    /\ pc = "start"
    /\ IF variable = MISSING
       THEN /\ result' = NodeRunResult(FAILED,
                    "File variable not found for selector: " \o variable_selector,
                    Absent, Absent, Absent)
            /\ pc' = "done"
            /\ UNCHANGED <<escaped, log>>
       ELSE IF TypeCheckFails(variable)
       THEN /\ result' = NodeRunResult(FAILED,
                    "Variable " \o variable_selector \o " is not an ArrayFileSegment",
                    Absent, Absent, Absent)
            /\ pc' = "done"
            /\ UNCHANGED <<escaped, log>>
       ELSE IF IsList(variable)
       THEN /\ pc' = IF Len(variable.files) = 0 THEN "return" ELSE "extract_file"
            /\ UNCHANGED <<result, escaped, log>>
       ELSE IF IsFile(variable)
       THEN /\ pc' = "extract_file"
            /\ UNCHANGED <<result, escaped, log>>
       ELSE LET e == Exc("DocumentExtractorError",
                         "Unsupported variable type: " \o variable.segment)
            IN /\ log' = Append(log, Raised(0, "run", e))
               /\ Propagate(e)
    /\ UNCHANGED <<variable, i, file_content, extracted_text_list,
                   extracted_text, csvVars>>

(* _extract_text_from_file is entered for element i: lines 162-164. *)
ExtractTextFromFile ==
    /\ pc = "extract_file"
    /\ LET file == CurrentFile
           call == Event("extract_file", i, "extract_file", file.mime_type, "")
           e == Exc("UnsupportedFileTypeError",
                    "Unable to determine file type: MIME type is missing")
       IN IF MimeTypeMissing(file)
          THEN /\ log' = log \o <<call, Raised(i, "extract_file", e)>>
               /\ Propagate(e)
          ELSE /\ log' = Append(log, call)
               /\ pc' = "download"
               /\ UNCHANGED <<result, escaped>>
    /\ UNCHANGED <<variable, i, file_content, extracted_text_list,
                   extracted_text, csvVars>>

(* Line 165: _download_file_content(file), lines 143-159. *)
DownloadFileContent ==
    /\ pc = "download"
    /\ \E a \in DownloadOutcomes(CurrentFile) :
        LET calls == [k \in 1..Len(a.calls) |->
                        Event(a.calls[k], i, "download", "", "")]
        IN IF a.exc = NoExc
           THEN /\ log' = log \o calls
                       \o <<Event("acquired", i, "download", a.content, "")>>
                /\ file_content' = a.content
                /\ pc' = "extract_text"
                /\ UNCHANGED <<result, escaped>>
           ELSE /\ log' = log \o calls \o <<Raised(i, "download", a.exc)>>
                /\ Propagate(a.exc)
                /\ UNCHANGED file_content
    /\ UNCHANGED <<variable, i, extracted_text_list, extracted_text, csvVars>>

(* Mutant: results are collected in reverse order. *)
Collect_prepend(text) ==
    IF variable.kind = "list"
    THEN /\ extracted_text_list' = <<text>> \o extracted_text_list
         /\ i' = i + 1
         /\ pc' = IF i + 1 > Len(variable.files)
                  THEN "return" ELSE "extract_file"
         /\ UNCHANGED extracted_text
    ELSE /\ extracted_text' = text
         /\ pc' = "return"
         /\ UNCHANGED <<i, extracted_text_list>>

(* The value _extract_text_from_file returns is collected: by list(map())  *)
(* in the list branch (line 54), by the assignment of line 62 otherwise.   *)
Collect(text) ==
    IF IsList(variable)
    THEN /\ extracted_text_list' = Append(extracted_text_list, text)
         /\ i' = NextIndex(i)
         /\ pc' = IF NextIndex(i) > Len(variable.files)
                  THEN "return" ELSE "extract_file"
         /\ UNCHANGED extracted_text
    ELSE /\ extracted_text' = text
         /\ pc' = "return"
         /\ UNCHANGED <<i, extracted_text_list>>

(* Lines 166-167: _extract_text(file_content, mime_type), lines 80-109. *)
ExtractText ==
    /\ pc = "extract_text"
    /\ LET mime_type == CurrentFile.mime_type
           strategy == SelectStrategy(mime_type)
           unsupported == Exc("UnsupportedFileTypeError",
                              "Unsupported MIME type: " \o mime_type)
           invoked == Event("strategy", i, "extract_text", strategy, "")
       IN IF strategy = UNSUPPORTED
          THEN /\ log' = Append(log, Raised(i, "extract_text", unsupported))
               /\ Propagate(unsupported)
               /\ UNCHANGED <<i, extracted_text_list, extracted_text>>
          ELSE \E o \in StrategyOutcomes(strategy, file_content) :
                IF o.exc = NoExc
                THEN /\ log' = log \o <<invoked,
                            Event("return", i, "extract_text", o.text, "")>>
                     /\ Collect(o.text)
                     /\ UNCHANGED <<result, escaped>>
                ELSE /\ log' = log \o <<invoked, Raised(i, "extract_text", o.exc)>>
                     /\ Propagate(o.exc)
                     /\ UNCHANGED <<i, extracted_text_list, extracted_text>>
    /\ UNCHANGED <<variable, file_content, csvVars>>

(* Lines 55-60 and 63-68. *)
RunReturn ==
    /\ pc = "return"
    /\ result' = SucceededResult(variable,
                    IF IsList(variable) THEN extracted_text_list
                    ELSE extracted_text)
    /\ pc' = "done"
    /\ UNCHANGED <<variable, i, file_content, extracted_text_list,
                   extracted_text, escaped, log, csvVars>>

CsvIdle ==
    /\ rows = <<>>
    /\ row_idx = 0
    /\ markdown_table = ""
    /\ csv_pc = "idle"
    /\ csv_result = [text |-> "", exc |-> NoExc]

RunIdle(p) ==
    /\ pc = p
    /\ i = 1
    /\ file_content = ""
    /\ extracted_text_list = <<>>
    /\ extracted_text = ""
    /\ result = NoResult
    /\ escaped = NoExc
    /\ log = <<>>

Init ==
    /\ variable \in Variables
    /\ RunIdle("start")
    /\ CsvIdle

Next ==
    \/ RunStart
    \/ ExtractTextFromFile
    \/ DownloadFileContent
    \/ ExtractText
    \/ RunReturn

Spec == Init /\ [][Next]_vars

(***************************************************************************)
(* _extract_text_from_csv (lines 170-187)                                  *)
(***************************************************************************)
(* Cells csv.reader can yield: a quoted field may hold a line break. *)
CellSet == {"a", "1\n2"}

RowSet == SeqsUpTo(CellSet, MaxCols)

(* The table [["a","b"],["1","2"]]. *)
ExampleRows == << <<"a", "b">>, <<"1", "2">> >>

CsvInputs == SeqsUpTo(RowSet, MaxRows) \cup {ExampleRows}

(* str.join *)
RECURSIVE Join(_, _)
Join(sep, cells) ==
    IF cells = <<>> THEN ""
    ELSE IF Len(cells) = 1 THEN cells[1]
    ELSE cells[1] \o sep \o Join(sep, Tail(cells))

Whitespace == {" ", "\n", "\t", "\r"}

RECURSIVE LStrip(_)
LStrip(s) ==
    IF Len(s) > 0 /\ SubSeq(s, 1, 1) \in Whitespace
    THEN LStrip(SubSeq(s, 2, Len(s))) ELSE s

RECURSIVE RStrip(_)
RStrip(s) ==
    IF Len(s) > 0 /\ SubSeq(s, Len(s), Len(s)) \in Whitespace
    THEN RStrip(SubSeq(s, 1, Len(s) - 1)) ELSE s

(* Mutant: the table is returned without strip(). *)
Strip_none(s) == s

(* str.strip, line 185. *)
Strip(s) == LStrip(RStrip(s))

(* Lines 180 and 183. *)
TableRow(row) == "| " \o Join(" | ", row) \o " |\n"

(* Line 181: ["---"] * len(rows[0]). *)
SeparatorCells(header) == [k \in 1..Len(header) |-> "---"]

(* Lines 171-174 raise (invalid UTF-8, a csv.Error): line 186 wraps it. *)
CsvDecodeFails ==
    /\ csv_pc = "start"
    /\ \E e \in DecoderRaises("csv") :
        csv_result' = [text |-> "", exc |-> TextExtractionError("csv", e)]
    /\ csv_pc' = "raised"
    /\ UNCHANGED <<rows, row_idx, markdown_table, runVars>>

(* Lines 176-181. *)
CsvHeader ==
    /\ csv_pc = "start"
    /\ IF rows = <<>>
       THEN /\ csv_result' = [text |-> "", exc |-> NoExc]
            /\ csv_pc' = "done"
            /\ UNCHANGED <<row_idx, markdown_table>>
       ELSE /\ markdown_table' =
                    TableRow(rows[1]) \o TableRow(SeparatorCells(rows[1]))
            /\ row_idx' = 2
            /\ csv_pc' = "rows"
            /\ UNCHANGED csv_result
    /\ UNCHANGED <<rows, runVars>>

(* Lines 182-183: one iteration of `for row in rows[1:]`. *)
CsvRow ==
    /\ csv_pc = "rows"
    /\ row_idx <= Len(rows)
    /\ markdown_table' = markdown_table \o TableRow(rows[row_idx])
    /\ row_idx' = row_idx + 1
    /\ UNCHANGED <<rows, csv_pc, csv_result, runVars>>

(* Line 185. *)
CsvReturn ==
    /\ csv_pc = "rows"
    /\ row_idx > Len(rows)
    /\ csv_result' = [text |-> Strip(markdown_table), exc |-> NoExc]
    /\ csv_pc' = "done"
    /\ UNCHANGED <<rows, row_idx, markdown_table, runVars>>

InitCsv ==
    /\ variable = MISSING
    /\ RunIdle("idle")
    /\ rows \in CsvInputs
    /\ row_idx = 0
    /\ markdown_table = ""
    /\ csv_pc = "start"
    /\ csv_result = [text |-> "", exc |-> NoExc]

NextCsv ==
    \/ CsvDecodeFails
    \/ CsvHeader
    \/ CsvRow
    \/ CsvReturn

SpecCsv == InitCsv /\ [][NextCsv]_vars

(***************************************************************************)
(* Properties                                                              *)
(***************************************************************************)
Done == pc = "done"

Positions == DOMAIN log

Files == variable.files

(* Positions of the events of element k with one of the given ops. *)
At(k, ops) == {p \in Positions : log[p].idx = k /\ log[p].op \in ops}

AcquisitionOps == {"get", "read"}

(* Element k has been handed to the dispatcher. *)
Entered(k) == At(k, {"extract_file"}) # {}

(* The dispatcher is past the acquisition of element k. *)
PastDownload(k) == Entered(k) /\ ~(i = k /\ pc \in {"extract_file", "download"})

(* The dispatcher has finished with element k. *)
Finished(k) == PastDownload(k) /\ ~(i = k /\ pc = "extract_text")

RaisedAt(k, at, kind) ==
    \E p \in Positions :
        /\ log[p].op = "raise" /\ log[p].idx = k
        /\ log[p].at = at /\ log[p].arg = kind

(* C1: a file reference whose mime_type is None makes _extract_text_from_file
   raise UnsupportedFileTypeError, and neither the network fetch nor the
   storage read is called for it, whatever its other fields are. *)
C1_NullMimeNoAcquisition ==
    \A k \in DOMAIN Files :
        (Files[k].mime_type = NULL /\ Entered(k)) =>
            /\ RaisedAt(k, "extract_file", "UnsupportedFileTypeError")
            /\ At(k, AcquisitionOps \cup {"acquired", "strategy", "return"}) = {}
            /\ Done /\ result.status = FAILED

C1_Witness ==
    /\ Done
    /\ Files = <<File(REMOTE_URL, "http://h/f", "id1", NULL)>>
    /\ RaisedAt(1, "extract_file", "UnsupportedFileTypeError")

(* The MIME strings of the registry table. *)
ListedMimeTypes ==
    {"text/plain", "text/html", "text/htm", "text/markdown", "text/xml",
     "application/pdf", "application/msword",
     "application/vnd.openxmlformats-officedocument.wordprocessingml.document",
     "text/csv", "application/vnd.ms-excel",
     "application/vnd.openxmlformats-officedocument.spreadsheetml.sheet",
     "application/vnd.ms-powerpoint",
     "application/vnd.openxmlformats-officedocument.presentationml.presentation",
     "application/epub+zip", "message/rfc822", "application/vnd.ms-outlook"}

(* Element k, whose bytes were acquired, was refused by _extract_text. *)
Refused(k) ==
    /\ RaisedAt(k, "extract_text", "UnsupportedFileTypeError")
    /\ At(k, {"strategy", "return"}) = {}

(* C2 as stated: every non-null MIME string that is not one of the listed
   strings is refused with UnsupportedFileTypeError whatever bytes were
   acquired, and only a listed string selects a strategy. *)
C2_ExactMatchOnly ==
    \A k \in DOMAIN Files :
        /\ (Files[k].mime_type \notin ListedMimeTypes \cup {NULL}
                /\ At(k, {"acquired"}) # {} /\ Finished(k)) => Refused(k)
        /\ At(k, {"strategy"}) # {} => Files[k].mime_type \in ListedMimeTypes

(* C2 amended: a non-null MIME string that neither is a listed string nor
   begins with "text/plain" is refused with UnsupportedFileTypeError whatever
   bytes were acquired, and no strategy is invoked; a string selects a strategy
   only if it is listed or begins with "text/plain" (then the plain-text
   strategy). *)
C2_ExactOrTextPlainPrefix ==
    \A k \in DOMAIN Files :
        LET m == Files[k].mime_type IN
        /\ (m \notin ListedMimeTypes \cup {NULL} /\ ~StartsWith(m, "text/plain")
                /\ At(k, {"acquired"}) # {} /\ Finished(k)) => Refused(k)
        /\ \A p \in At(k, {"strategy"}) :
            /\ m \in ListedMimeTypes \/ StartsWith(m, "text/plain")
            /\ (m \notin ListedMimeTypes => log[p].arg = "plain_text")

C2_Witness ==
    /\ Done
    /\ Len(Files) = 1
    /\ Files[1].mime_type = "text/csvx"
    /\ \E p \in At(1, {"acquired"}) : log[p].arg = "b2"
    /\ Refused(1)

(* C3: _download_file_content on a REMOTE_URL file without remote_url, or on
   a LOCAL_FILE file without related_id, raises FileDownloadError and calls
   neither the network fetch nor the storage read. *)
C3_MissingFieldNoCall ==
    \A k \in DOMAIN Files :
        LET f == Files[k] IN
        (/\ \/ f.transfer_method = REMOTE_URL /\ f.remote_url = NULL
            \/ f.transfer_method = LOCAL_FILE /\ f.related_id = NULL
         /\ f.mime_type # NULL
         /\ PastDownload(k)) =>
            /\ RaisedAt(k, "download", "FileDownloadError")
            /\ At(k, AcquisitionOps \cup {"acquired"}) = {}

C3_Witness ==
    /\ Done
    /\ Len(Files) = 1
    /\ Files[1].transfer_method = LOCAL_FILE
    /\ Files[1].related_id = NULL
    /\ Files[1].remote_url # NULL
    /\ RaisedAt(1, "download", "FileDownloadError")

NoRaise == \A p \in Positions : log[p].op # "raise"

(* The text the dispatcher returned for element k. *)
ReturnedText(k) == log[CHOOSE p \in At(k, {"return"}) : TRUE].arg

(* The bytes acquired for element k. *)
AcquiredContent(k) == log[CHOOSE p \in At(k, {"acquired"}) : TRUE].arg

(* C4: when the input is a list of n >= 0 files and no element fails, _run
   returns SUCCEEDED with a text list of exactly n entries, the k-th being
   what the dispatcher returned for the k-th file, and the dispatcher was
   called exactly once per element. *)
C4_BatchSucceedsInOrder ==
    (Done /\ variable.segment = "ArrayFileSegment" /\ NoRaise) =>
        /\ result.status = SUCCEEDED
        /\ result.outputs.present
        /\ Len(result.outputs.value) = Len(Files)
        /\ Cardinality({p \in Positions : log[p].op = "extract_file"}) = Len(Files)
        /\ \A k \in DOMAIN Files :
            /\ Cardinality(At(k, {"extract_file"})) = 1
            /\ Cardinality(At(k, {"return"})) = 1
            /\ Cardinality(At(k, {"acquired"})) = 1
            /\ result.outputs.value[k] = ReturnedText(k)

C4_Witness ==
    /\ Done
    /\ variable.segment = "ArrayFileSegment"
    /\ Len(Files) = 3
    /\ Files[1].mime_type = "text/csv"
    /\ Files[2].mime_type = "text/plain; charset=utf-8"
    /\ result.status = SUCCEEDED
    /\ Len(result.outputs.value) = 3
    /\ AcquiredContent(2) # AcquiredContent(3)

(* The first raise recorded. *)
FirstRaise ==
    CHOOSE p \in Positions :
        log[p].op = "raise" /\ \A q \in 1..(p - 1) : log[q].op # "raise"

(* A file that can only fail: no MIME type, an unregistered MIME type, a
   missing reference field or an unknown transfer method. *)
CertainToFail(f) ==
    \/ f.mime_type \in {NULL, "application/zip"}
    \/ f.transfer_method = REMOTE_URL /\ f.remote_url = NULL
    \/ f.transfer_method = LOCAL_FILE /\ f.related_id = NULL
    \/ f.transfer_method \notin {REMOTE_URL, LOCAL_FILE}

(* C5: when an element of a list input fails, _run returns FAILED, the error
   is the message of the first failing element in input order (every element
   before it succeeded), and no text output is populated. *)
C5_BatchFailsWithFirstError ==
    (Done /\ variable.segment = "ArrayFileSegment") =>
        /\ (\E k \in DOMAIN Files : CertainToFail(Files[k])) =>
                result.status = FAILED
        /\ ~NoRaise =>
            /\ result.status = FAILED
            /\ result.error = log[FirstRaise].msg
            /\ \A k \in 1..(log[FirstRaise].idx - 1) : At(k, {"return"}) # {}
            /\ \A k \in DOMAIN Files : k > log[FirstRaise].idx => ~Entered(k)
        /\ result.status = FAILED =>
            /\ ~NoRaise
            /\ ~result.outputs.present

C5_Witness ==
    /\ Done
    /\ variable.segment = "ArrayFileSegment"
    /\ Len(Files) = 3
    /\ At(1, {"return"}) # {}
    /\ RaisedAt(2, "extract_text", "UnsupportedFileTypeError")
    /\ result.status = FAILED
    /\ result.error = "Unsupported MIME type: application/zip"

ErrorKinds ==
    {"UnsupportedFileTypeError", "FileDownloadError", "TextExtractionError",
     "DocumentExtractorError"}

(* C6: whatever the input variable is and whatever the fetch, the storage
   read or a decoder raises, no exception leaves _run: the run always goes
   on to an outcome, the outcome is SUCCEEDED or FAILED, and every raised
   error and every rejected variable gives FAILED with an error message. *)
C6_BoundaryClosed ==
    /\ escaped = NoExc
    /\ \A p \in Positions : log[p].op = "raise" => log[p].arg \in ErrorKinds
    /\ ~Done => ENABLED Next
    /\ Done =>
        /\ result.status \in {SUCCEEDED, FAILED}
        /\ (~NoRaise \/ variable = MISSING
                \/ (variable.truthy /\ variable.kind \notin {"file", "list"})) =>
            result.status = FAILED
        /\ result.status = FAILED => result.error # ""
        /\ result.status = SUCCEEDED => result.error = "" /\ NoRaise

C6_Witness ==
    /\ Done
    /\ result.status = FAILED
    /\ At(1, {"strategy"}) # {}
    /\ RaisedAt(1, "extract_text", "TextExtractionError")
    /\ result.error = "Failed to extract text from CSV: corrupt file"

NoCollaboratorCalled ==
    \A p \in Positions :
        log[p].op \notin AcquisitionOps \cup {"extract_file", "acquired", "strategy"}

FileSegments == {"FileSegment", "ArrayFileSegment"}

ValidationErrors ==
    {"File variable not found for selector: " \o variable_selector,
     "Variable " \o variable_selector \o " is not an ArrayFileSegment",
     "Unsupported variable type: " \o variable.segment}

(* C7 as stated: a variable that is neither a file nor an array of files
   gives FAILED with a validation error, without any acquisition call or
   strategy invocation, and never SUCCEEDED. *)
C7_WrongShapeFails ==
    (Done /\ variable.segment \notin FileSegments) =>
        /\ result.status = FAILED
        /\ result.error \in ValidationErrors
        /\ NoCollaboratorCalled

(* C7 amended: a variable that is neither a file nor an array of files gives
   FAILED with a validation error unless its value is an empty list; no
   acquisition call or strategy invocation is made either way.  An empty list
   held by a variable of another array class is run as an empty batch:
   SUCCEEDED with an empty text list. *)
C7_WrongShapeFailsUnlessEmptyList ==
    (Done /\ variable.segment \notin FileSegments) =>
        /\ NoCollaboratorCalled
        /\ IF variable.kind = "list" /\ ~variable.truthy
           THEN /\ result.status = SUCCEEDED
                /\ result.outputs = Present(<<>>)
           ELSE /\ result.status = FAILED
                /\ result.error \in ValidationErrors
                /\ ~result.outputs.present

C7_Witness ==
    /\ Done
    /\ variable.segment = "ArrayStringSegment"
    /\ variable.truthy
    /\ result.status = FAILED
    /\ result.error = "Variable ['start', 'files'] is not an ArrayFileSegment"

(* The rendering the claim describes, built from the last row backwards. *)
RECURSIVE C8_Cells(_)
C8_Cells(row) ==
    IF Len(row) = 0 THEN ""
    ELSE IF Len(row) = 1 THEN row[1]
    ELSE C8_Cells(SubSeq(row, 1, Len(row) - 1)) \o " | " \o row[Len(row)]

C8_Line(row) == "| " \o C8_Cells(row) \o " |"

RECURSIVE C8_Dashes(_)
C8_Dashes(n) == IF n = 0 THEN <<>> ELSE Append(C8_Dashes(n - 1), "---")

(* Header, separator, then the data rows. *)
C8_Lines(rs) ==
    <<C8_Line(rs[1]), C8_Line(C8_Dashes(Len(rs[1])))>>
        \o [k \in 1..(Len(rs) - 1) |-> C8_Line(rs[k + 1])]

RECURSIVE C8_JoinLines(_)
C8_JoinLines(lines) ==
    IF Len(lines) = 1 THEN lines[1]
    ELSE C8_JoinLines(SubSeq(lines, 1, Len(lines) - 1)) \o "\n" \o lines[Len(lines)]

C8_Newlines(str) ==
    Cardinality({k \in 1..Len(str) : SubSeq(str, k, k) = "\n"})

RECURSIVE C8_Sum(_)
C8_Sum(ns) == IF ns = <<>> THEN 0 ELSE Head(ns) + C8_Sum(Tail(ns))

(* Line breaks held inside the cells of the table. *)
C8_CellNewlines(rs) ==
    C8_Sum([k \in 1..Len(rs) |->
                C8_Sum([c \in 1..Len(rs[k]) |-> C8_Newlines(rs[k][c])])])

(* C8: the CSV rendering of no rows is "", and the rendering of k >= 1 rows
   is k+1 lines joined by single line breaks - the header, a separator with
   one "---" per header cell, then each further row with its own cells, each
   line "| " + cells joined by " | " + " |" - with no leading or trailing
   whitespace; the only other line breaks are those inside the cells. *)
C8_MarkdownTable ==
    (csv_pc = "done") =>
        /\ csv_result.exc = NoExc
        /\ rows = <<>> => csv_result.text = ""
        /\ rows # <<>> =>
            LET t == csv_result.text IN
            /\ Len(C8_Lines(rows)) = Len(rows) + 1
            /\ t = C8_JoinLines(C8_Lines(rows))
            /\ C8_Newlines(t) = Len(rows) + C8_CellNewlines(rows)
            /\ SubSeq(t, 1, 1) = "|"
            /\ SubSeq(t, Len(t), Len(t)) = "|"

C8_Witness ==
    /\ csv_pc = "done"
    /\ rows = ExampleRows
    /\ csv_result.text = "| a | b |\n| --- | --- |\n| 1 | 2 |"
    /\ Len(csv_result.text) = 33

(* Order of the steps taken for one element. *)
Phase(e) ==
    CASE e.op = "extract_file" -> 1
      [] e.op \in AcquisitionOps -> 2
      [] e.op = "acquired" -> 3
      [] e.op = "strategy" -> 4
      [] e.op = "return" -> 5
      [] OTHER -> 6

(* C9: the elements of a batch are processed one after the other in input
   order; for each element the MIME check comes first, then the acquisition,
   then the strategy; nothing is done for element k+1 before element k has
   returned its text; and nothing at all is done after the first raise. *)
C9_SequentialInOrder ==
    /\ \A p \in Positions :
        /\ log[p].op = "raise" => p = Len(log)
        /\ p = 1 => log[p].idx \in {0, 1}
        /\ log[p].op \in AcquisitionOps \cup {"acquired"} =>
            /\ Files[log[p].idx].mime_type # NULL
            /\ \E q \in 1..(p - 1) :
                log[q].op = "extract_file" /\ log[q].idx = log[p].idx
        /\ log[p].op = "strategy" =>
            \E q \in 1..(p - 1) :
                log[q].op = "acquired" /\ log[q].idx = log[p].idx
    /\ \A p \in Positions : \A q \in Positions :
        p < q =>
            /\ log[p].idx <= log[q].idx
            /\ log[p].idx = log[q].idx => Phase(log[p]) < Phase(log[q])
    /\ \A p \in Positions :
        (p < Len(log) /\ log[p].idx # log[p + 1].idx) =>
            /\ log[p].op = "return"
            /\ log[p + 1].op = "extract_file"
            /\ log[p + 1].idx = log[p].idx + 1
    /\ Done /\ NoRaise /\ variable.segment = "ArrayFileSegment" =>
        \A k \in DOMAIN Files : Entered(k)

C9_Witness ==
    /\ Done
    /\ Len(Files) = 3
    /\ At(1, {"get"}) # {}
    /\ At(1, {"return"}) # {}
    /\ At(2, {"read"}) # {}
    /\ RaisedAt(2, "download", "FileDownloadError")
    /\ ~Entered(3)

(* C10: one call of _download_file_content makes at most one collaborator
   call - a GET for REMOTE_URL, a storage read for LOCAL_FILE, never both -
   and whenever it fails (an unknown transfer method, an HTTP error status, a
   transport error, a storage error, a missing field) it raises
   FileDownloadError and nothing else. *)
C10_OneCallAndFileDownloadError ==
    /\ \A k \in DOMAIN Files :
        /\ Cardinality(At(k, AcquisitionOps)) <= 1
        /\ At(k, {"get"}) # {} => Files[k].transfer_method = REMOTE_URL
        /\ At(k, {"read"}) # {} => Files[k].transfer_method = LOCAL_FILE
        /\ (PastDownload(k) /\ Files[k].mime_type # NULL) =>
            /\ Files[k].transfer_method \notin {REMOTE_URL, LOCAL_FILE} =>
                RaisedAt(k, "download", "FileDownloadError")
            /\ At(k, {"acquired"}) = {} =>
                RaisedAt(k, "download", "FileDownloadError")
            /\ At(k, {"acquired"}) # {} => At(k, AcquisitionOps) # {}
    /\ \A p \in Positions :
        /\ (log[p].op = "raise" /\ log[p].at = "download") =>
            log[p].arg = "FileDownloadError"
        /\ log[p].op \in AcquisitionOps =>
            /\ p < Len(log)
            /\ \/ log[p + 1].op = "acquired"
               \/ log[p + 1].op = "raise" /\ log[p + 1].arg = "FileDownloadError"

C10_Witness ==
    /\ Done
    /\ Len(Files) = 1
    /\ At(1, {"get"}) # {}
    /\ \E p \in Positions :
        /\ log[p].op = "raise" /\ log[p].at = "download"
        /\ log[p].msg = "Error downloading file: 404 Not Found"
    /\ result.error = "Error downloading file: 404 Not Found"

====
